---- MODULE Spec2Model ----
(***************************************************************************)
(* State-machine model of src/enhanced_chess.py (class ChessGame).         *)
(*                                                                         *)
(* The rules library (python-chess) and the engine (Stockfish) are         *)
(* external.  The rules library is represented by a small game with the    *)
(* same interface (piece_at, turn, legal_moves, san, push, pop,            *)
(* is_game_over, is_checkmate): chess played on the a-file only, with      *)
(* kings, rooks, pawns and promotion.  The engine is an input: any move or *)
(* no move at all.                                                         *)
(*                                                                         *)
(* Time is measured in seconds as in the source; the wall-clock time that  *)
(* passes in a frame or in an engine call is an input.  since_last_time is *)
(* time.time() minus self.last_time.                                       *)
(***************************************************************************)
EXTENDS Integers, Sequences, FiniteSets, TLC

\* ---------------------------------------------------------------- bounds
\* Most plies the position may hold (guards every push).
MaxPlies == 5
\* Most entries one capture tally may hold (guards every capturing push).
MaxCaptured == 1
\* Engine processes a run starts at most.
MaxEngines == 2
\* Wall-clock seconds that pass in one frame.
Quantum == 200

\* ------------------------------------------------------- source constants
WINDOW_SIZE == 1000
BOARD_SIZE == 600
SQUARE_SIZE == BOARD_SIZE \div 8
MARGIN == 50
INITIAL_TIME == 600
\* pygame.time.delay(1000), in seconds.
DELAY == 1
\* chess.engine.Limit(time=1.0), in seconds.
ENGINE_LIMIT == 1

\* Largest value of since_last_time the model follows.
MaxSince == Quantum + DELAY + ENGINE_LIMIT + 1
\* Lowest countdown value the model follows.
MinTime == 0 - 3 * Quantum

WHITE == TRUE
BLACK == FALSE

\* Python's None, one value per type it stands in for.
None == "None"
NoSquare == 0 - 1
NoPos == <<>>
NoPiece == [color |-> FALSE, type |-> "-"]
NoMove == [from_square |-> NoSquare, to_square |-> NoSquare, promotion |-> None]

\* ------------------------------------------------- rules collaborator
SQUARES == 0 .. 63
square_file(s) == s % 8
square_rank(s) == s \div 8
square(f, r) == r * 8 + f

\* The squares of the a-file: the board of the small game.
FileA == {s \in SQUARES : square_file(s) = 0}

Piece(c, t) == [color |-> c, type |-> t]
Move(f, t, p) == [from_square |-> f, to_square |-> t, promotion |-> p]

\* chess.Board(): a1 empty, a2 black pawn, a4 white king, a5 white rook,
\* a6 white pawn, a8 black king; White to move.  As in chess, no first move
\* captures or ends the game.
StartPieces ==
    [s \in FileA |->
        CASE s = square(0, 1) -> Piece(BLACK, "p")
          [] s = square(0, 3) -> Piece(WHITE, "k")
          [] s = square(0, 4) -> Piece(WHITE, "r")
          [] s = square(0, 5) -> Piece(WHITE, "p")
          [] s = square(0, 7) -> Piece(BLACK, "k")
          [] OTHER -> NoPiece]

NewBoard ==
    [pieces |-> StartPieces, turn |-> WHITE, move_stack |-> <<>>, stack |-> <<>>]

piece_at(b, s) == IF s \in FileA THEN b.pieces[s] ELSE NoPiece

Between(s, t) ==
    {u \in FileA : /\ square_rank(u) > square_rank(IF s < t THEN s ELSE t)
                   /\ square_rank(u) < square_rank(IF s < t THEN t ELSE s)}

Abs(n) == IF n < 0 THEN 0 - n ELSE n

\* Whether the piece on s attacks t (both on the a-file).  A pawn attacks
\* diagonally, so never along the file.
Attacks(pieces, s, t) ==
    /\ s # t
    /\ pieces[s] # NoPiece
    /\ CASE pieces[s].type = "k" -> Abs(square_rank(s) - square_rank(t)) = 1
         [] pieces[s].type \in {"r", "q"} ->
                \A u \in Between(s, t) : pieces[u] = NoPiece
         [] OTHER -> FALSE

IsAttackedBy(pieces, c, t) ==
    \E s \in FileA : pieces[s] # NoPiece /\ pieces[s].color = c /\ Attacks(pieces, s, t)

InCheck(pieces, c) ==
    \E s \in FileA : /\ pieces[s] = Piece(c, "k")
                     /\ IsAttackedBy(pieces, ~c, s)

LastRank(c) == IF c = WHITE THEN 7 ELSE 0
Forward(c) == IF c = WHITE THEN 8 ELSE 0 - 8

PseudoLegal(pieces, turn, m) ==
    /\ m.from_square \in FileA /\ m.to_square \in FileA
    /\ m.from_square # m.to_square
    /\ pieces[m.from_square] # NoPiece
    /\ pieces[m.from_square].color = turn
    /\ \/ pieces[m.to_square] = NoPiece
       \/ /\ pieces[m.to_square].color # turn
          /\ pieces[m.to_square].type # "k"
    /\ CASE pieces[m.from_square].type = "p" ->
                /\ m.to_square = m.from_square + Forward(turn)
                /\ pieces[m.to_square] = NoPiece
                /\ (m.promotion = "q") <=> (square_rank(m.to_square) = LastRank(turn))
                /\ m.promotion \in {None, "q"}
         [] OTHER ->
                /\ m.promotion = None
                /\ Attacks(pieces, m.from_square, m.to_square)

MovePieces(pieces, m) ==
    [pieces EXCEPT ![m.from_square] = NoPiece,
                   ![m.to_square] = IF m.promotion # None
                                    THEN Piece(pieces[m.from_square].color, m.promotion)
                                    ELSE pieces[m.from_square]]

AllMoves == {Move(f, t, p) : f \in FileA, t \in FileA, p \in {None, "q"}}

IsLegal(b, m) ==
    /\ PseudoLegal(b.pieces, b.turn, m)
    /\ ~InCheck(MovePieces(b.pieces, m), b.turn)

legal_moves(b) == {m \in AllMoves : IsLegal(b, m)}

is_check(b) == InCheck(b.pieces, b.turn)
is_checkmate(b) == is_check(b) /\ legal_moves(b) = {}
is_stalemate(b) == ~is_check(b) /\ legal_moves(b) = {}
is_insufficient_material(b) ==
    \A s \in FileA : b.pieces[s] = NoPiece \/ b.pieces[s].type = "k"
is_game_over(b) == is_checkmate(b) \/ is_stalemate(b) \/ is_insufficient_material(b)

push(b, m) ==
    [pieces |-> MovePieces(b.pieces, m),
     turn |-> ~b.turn,
     move_stack |-> Append(b.move_stack, m),
     stack |-> Append(b.stack, [pieces |-> b.pieces, turn |-> b.turn])]

\* board.pop(); on an empty move stack python-chess raises IndexError.
pop(b) ==
    [pieces |-> b.stack[Len(b.stack)].pieces,
     turn |-> b.stack[Len(b.stack)].turn,
     move_stack |-> SubSeq(b.move_stack, 1, Len(b.move_stack) - 1),
     stack |-> SubSeq(b.stack, 1, Len(b.stack) - 1)]

\* board.san(move): piece letter, capture mark, destination, promotion and
\* check or mate suffix, computed on the position before the move.
san(b, m) ==
    [piece |-> b.pieces[m.from_square].type,
     capture |-> b.pieces[m.to_square] # NoPiece,
     to_square |-> m.to_square,
     promotion |-> m.promotion,
     suffix |-> IF is_checkmate(push(b, m)) THEN "#"
                ELSE IF is_check(push(b, m)) THEN "+" ELSE ""]

\* piece.symbol(): upper case for White, lower case for Black.
symbol(p) == IF p.color = WHITE THEN <<"upper", p.type>> ELSE <<"lower", p.type>>
lower(sym) == <<"lower", sym[2]>>
upper(sym) == <<"upper", sym[2]>>

\* ------------------------------------------------------------ geometry
\* pygame.Rect(left, top, width, height).collidepoint(pos)
collidepoint(left, top, width, height, pos) ==
    /\ left <= pos[1] /\ pos[1] < left + width
    /\ top <= pos[2] /\ pos[2] < top + height

white_rect(pos) == collidepoint(WINDOW_SIZE \div 4, 300, 200, 60, pos)
black_rect(pos) == collidepoint((WINDOW_SIZE * 3) \div 4 - 200, 300, 200, 60, pos)
button_rect(pos) == collidepoint((WINDOW_SIZE - 200) \div 2, WINDOW_SIZE - 100, 200, 50, pos)

Truthy(c) == c = "True"

\* A mapping from pixels to squares that never flips the ranks.
pixel_to_square_unflipped(color, pos) ==
    IF ~(/\ MARGIN <= pos[1] /\ pos[1] < MARGIN + BOARD_SIZE
         /\ MARGIN <= pos[2] /\ pos[2] < MARGIN + BOARD_SIZE)
    THEN NoSquare
    ELSE square((pos[1] - MARGIN) \div SQUARE_SIZE, (pos[2] - MARGIN) \div SQUARE_SIZE)

pixel_to_square(color, pos) ==
    IF ~(/\ MARGIN <= pos[1] /\ pos[1] < MARGIN + BOARD_SIZE
         /\ MARGIN <= pos[2] /\ pos[2] < MARGIN + BOARD_SIZE)
    THEN NoSquare
    ELSE LET file == (pos[1] - MARGIN) \div SQUARE_SIZE
             row == (pos[2] - MARGIN) \div SQUARE_SIZE
             rank == IF Truthy(color) THEN 7 - row ELSE row
         IN IF 0 <= file /\ file < 8 /\ 0 <= rank /\ rank < 8
            THEN square(file, rank) ELSE NoSquare

square_to_pixel(color, s) ==
    LET rank == IF Truthy(color) THEN 7 - square_rank(s) ELSE square_rank(s)
    IN <<MARGIN + square_file(s) * SQUARE_SIZE, MARGIN + rank * SQUARE_SIZE>>

\* Pointer positions the events carry: the middle of every a-file square,
\* a point in each of the three buttons.
SquareMiddles ==
    {<<MARGIN + SQUARE_SIZE \div 2, MARGIN + row * SQUARE_SIZE + SQUARE_SIZE \div 2>> :
        row \in 0 .. 7}
WhiteButtonPos == <<300, 320>>
BlackButtonPos == <<600, 320>>
NewGamePos == <<500, 920>>
Positions == SquareMiddles \cup {WhiteButtonPos, BlackButtonPos, NewGamePos}
\* Positions a drag passes through.
MotionPositions == {NewGamePos}
Buttons == {1, 3}

\* --------------------------------------------------------------- state
VARIABLES
    board, selected_square, valid_moves, last_move, game_over, ai_thinking,
    move_history, captured_pieces, selected_piece, selected_piece_pos,
    player_color, white_time, black_time, since_last_time, game_started,
    checkmate_popup, winner, engine,
    running, color_selection, pc,
    engines_started, engines_quit

vars ==
    <<board, selected_square, valid_moves, last_move, game_over, ai_thinking,
      move_history, captured_pieces, selected_piece, selected_piece_pos,
      player_color, white_time, black_time, since_last_time, game_started,
      checkmate_popup, winner, engine,
      running, color_selection, pc,
      engines_started, engines_quit>>

selection == <<selected_square, valid_moves, selected_piece, selected_piece_pos>>
NoName == <<>>
NoSelection == <<NoSquare, {}, NoName, NoPos>>

\* Time load_piece_images and init_stockfish take after last_time is set.
LoadTimes == {1}
\* Time one frame takes (clock.tick(60) waits at least one frame period).
FrameTimes == {Quantum}
\* Time engine.play takes when an engine is present: its budget.
EngineTimes == {ENGINE_LIMIT}

\* init_stockfish: the engine processes started so far, after a call that
\* found and launched an engine (eng) or did not.
Started(n, eng) == IF eng THEN n + 1 ELSE n

\* A reset that leaves the winner of the previous game in place.
FreshSessionKeepsWinner(eng, load) ==
    /\ board' = NewBoard
    /\ selected_square' = NoSquare
    /\ valid_moves' = {}
    /\ last_move' = NoMove
    /\ game_over' = FALSE
    /\ ai_thinking' = FALSE
    /\ move_history' = <<>>
    /\ captured_pieces' = [w |-> <<>>, b |-> <<>>]
    /\ selected_piece' = NoName
    /\ selected_piece_pos' = NoPos
    /\ player_color' = None
    /\ white_time' = INITIAL_TIME
    /\ black_time' = INITIAL_TIME
    /\ since_last_time' = load
    /\ game_started' = FALSE
    /\ checkmate_popup' = FALSE
    /\ winner' = winner
    /\ engine' = eng

\* ChessGame.__init__ / reset_game: every session field.
FreshSession(eng, load) ==
    /\ board' = NewBoard
    /\ selected_square' = NoSquare
    /\ valid_moves' = {}
    /\ last_move' = NoMove
    /\ game_over' = FALSE
    /\ ai_thinking' = FALSE
    /\ move_history' = <<>>
    /\ captured_pieces' = [w |-> <<>>, b |-> <<>>]
    /\ selected_piece' = NoName
    /\ selected_piece_pos' = NoPos
    /\ player_color' = None
    /\ white_time' = INITIAL_TIME
    /\ black_time' = INITIAL_TIME
    /\ since_last_time' = load
    /\ game_started' = FALSE
    /\ checkmate_popup' = FALSE
    /\ winner' = None
    /\ engine' = eng

Init ==
    /\ board = NewBoard
    /\ selected_square = NoSquare
    /\ valid_moves = {}
    /\ last_move = NoMove
    /\ game_over = FALSE
    /\ ai_thinking = FALSE
    /\ move_history = <<>>
    /\ captured_pieces = [w |-> <<>>, b |-> <<>>]
    /\ selected_piece = NoName
    /\ selected_piece_pos = NoPos
    /\ player_color = None
    /\ white_time = INITIAL_TIME
    /\ black_time = INITIAL_TIME
    /\ since_last_time \in LoadTimes
    /\ game_started = FALSE
    /\ checkmate_popup = FALSE
    /\ winner = None
    /\ engine \in BOOLEAN
    /\ running = TRUE
    /\ color_selection = TRUE
    /\ pc = "loop"
    /\ engines_started = Started(0, engine)
    /\ engines_quit = 0

\* --------------------------------------------------------- engine input
\* What engine.play may answer on position b: a legal move, a move that is
\* not legal, or a failure (NoMove).
IllegalReply == Move(square(0, 0), square(0, 7), None)
EngineReplies(b) == legal_moves(b) \cup {IllegalReply, NoMove}

\* get_ai_move: None without an engine or when engine.play raises.
get_ai_move(eng, reply) == IF ~eng THEN NoMove ELSE reply

\* A test of the reply that lets any move through.
EngineAppliesUnchecked(b, ai_move) == ai_move # NoMove

\* if ai_move and ai_move in self.board.legal_moves
EngineApplies(b, ai_move) == ai_move # NoMove /\ IsLegal(b, ai_move)

\* ------------------------------------------------------------ ply steps
\* The fields a ply changes.
PlyState ==
    [board |-> board, move_history |-> move_history,
     captured_pieces |-> captured_pieces, last_move |-> last_move,
     game_over |-> game_over, winner |-> winner,
     checkmate_popup |-> checkmate_popup]

\* "White" if not self.board.turn else "Black"
MateWinner(b) == IF ~b.turn THEN "White" ELSE "Black"

\* A ply that records no capture.
RecordCaptureNever(cp, captured) == cp

\* captured_pieces[color].append(captured_piece.symbol().upper())
RecordCapture(cp, captured) ==
    IF captured = NoPiece THEN cp
    ELSE IF captured.color = WHITE
         THEN [cp EXCEPT !.w = Append(@, upper(symbol(captured)))]
         ELSE [cp EXCEPT !.b = Append(@, upper(symbol(captured)))]

\* self.move_history.append(move_san)
RecordPly(h, move_san) == Append(h, move_san)

\* The termination check after a ply.
Terminate(s, b) ==
    IF is_game_over(b)
    THEN [s EXCEPT !.game_over = TRUE,
                   !.winner = IF is_checkmate(b) THEN MateWinner(b) ELSE @,
                   !.checkmate_popup = TRUE]
    ELSE s

\* SAN before the push, capture record, push, history, last move,
\* termination check: the human's ply and the engine's reply alike.
ApplyMove(s, move) ==
    LET move_san == san(s.board, move)
        captured_piece == piece_at(s.board, move.to_square)
        b == push(s.board, move)
    IN Terminate([s EXCEPT !.captured_pieces = RecordCapture(@, captured_piece),
                           !.board = b,
                           !.move_history = RecordPly(@, move_san),
                           !.last_move = move], b)

\* The engine's first move as White: no capture record, no termination check.
ApplyFirstMove(s, move) ==
    [s EXCEPT !.board = push(s.board, move),
              !.move_history = RecordPly(@, san(s.board, move)),
              !.last_move = move]

\* Whether the model follows the ply: room on the move stack and in the tally.
Room(s, move) ==
    /\ Len(s.board.move_stack) < MaxPlies
    /\ LET c == piece_at(s.board, move.to_square)
       IN c # NoPiece =>
            Len(IF c.color = WHITE THEN s.captured_pieces.w ELSE s.captured_pieces.b)
                < MaxCaptured

SetPlyState(s) ==
    /\ board' = s.board
    /\ move_history' = s.move_history
    /\ captured_pieces' = s.captured_pieces
    /\ last_move' = s.last_move
    /\ game_over' = s.game_over
    /\ winner' = s.winner
    /\ checkmate_popup' = s.checkmate_popup

\* ---------------------------------------------------------------- timer
\* A timer that charges the side that does not have the move.
ChargedSideSwapped(b) == IF b.turn = WHITE THEN "Black" ELSE "White"

\* The side whose countdown update_timer charges.
ChargedSide(b) == IF b.turn = WHITE THEN "White" ELSE "Black"

\* A time-out check that names the side that ran out of time as the winner.
TimeOutSwapped(t) ==
    IF t.white_time <= 0
    THEN [t EXCEPT !.game_over = TRUE, !.winner = "White", !.checkmate_popup = TRUE]
    ELSE IF t.black_time <= 0
    THEN [t EXCEPT !.game_over = TRUE, !.winner = "Black", !.checkmate_popup = TRUE]
    ELSE t

\* The time-out check.
TimeOut(t) ==
    IF t.white_time <= 0
    THEN [t EXCEPT !.game_over = TRUE, !.winner = "Black", !.checkmate_popup = TRUE]
    ELSE IF t.black_time <= 0
    THEN [t EXCEPT !.game_over = TRUE, !.winner = "White", !.checkmate_popup = TRUE]
    ELSE t

\* A timer step that notes the time and charges nobody.
update_timer_idle(t, started, b, elapsed) == [t EXCEPT !.since = 0]

\* update_timer on the fields t, with elapsed = time.time() - self.last_time.
update_timer(t, started, b, elapsed) ==
    IF ~started \/ t.game_over
    THEN t
    ELSE TimeOut([t EXCEPT
            !.white_time = IF ChargedSide(b) = "White" THEN @ - elapsed ELSE @,
            !.black_time = IF ChargedSide(b) = "White" THEN @ ELSE @ - elapsed,
            !.since = 0])

TimerState(s, since) ==
    [white_time |-> white_time, black_time |-> black_time,
     game_over |-> s.game_over, winner |-> s.winner,
     checkmate_popup |-> s.checkmate_popup, since |-> since]

\* -------------------------------------------------------------- actions
\* MOUSEBUTTONDOWN at pos while the colour choice is shown.
ColorClick(pos) ==
    /\ pc = "loop"
    /\ color_selection
    /\ IF white_rect(pos)
       THEN /\ player_color' = "True"
            /\ color_selection' = FALSE
            /\ game_started' = TRUE
            /\ UNCHANGED <<board, move_history, captured_pieces, last_move, game_over,
                           winner, checkmate_popup, since_last_time>>
       ELSE IF black_rect(pos)
       THEN \E reply \in EngineReplies(board), d \in EngineTimes :
              LET ai_move == get_ai_move(engine, reply)
                  applies == EngineApplies(board, ai_move)
                  took == IF engine THEN d ELSE 0
              IN /\ ~engine => reply = NoMove
                 /\ since_last_time + DELAY + took <= MaxSince
                 /\ player_color' = "False"
                 /\ color_selection' = FALSE
                 /\ game_started' = TRUE
                 /\ SetPlyState(IF applies THEN ApplyFirstMove(PlyState, ai_move)
                                ELSE PlyState)
                 /\ since_last_time' = since_last_time + DELAY + took
       ELSE UNCHANGED <<player_color, color_selection, game_started, board,
                        move_history, captured_pieces, last_move, game_over, winner,
                        checkmate_popup, since_last_time>>
    /\ UNCHANGED <<selected_square, valid_moves, selected_piece, selected_piece_pos,
                   ai_thinking, white_time, black_time, engine,
                   engines_started, engines_quit, running, pc>>

\* A press that picks up a piece of the human's colour whoever is to move.
SelectableOutOfTurn(sq) ==
    LET piece == piece_at(board, sq)
    IN /\ sq # NoSquare
       /\ piece # NoPiece
       /\ \/ Truthy(player_color) /\ piece.color = WHITE
          \/ ~Truthy(player_color) /\ piece.color = BLACK

\* A press that picks up any piece of the side to move, the engine's too.
SelectableAnyColour(sq) ==
    LET piece == piece_at(board, sq)
    IN /\ sq # NoSquare
       /\ piece # NoPiece
       /\ piece.color = board.turn

\* The press selects the piece on square sq.
Selectable(sq) ==
    LET piece == piece_at(board, sq)
    IN /\ sq # NoSquare
       /\ piece # NoPiece
       /\ piece.color = board.turn
       /\ \/ Truthy(player_color) /\ piece.color = WHITE
          \/ ~Truthy(player_color) /\ piece.color = BLACK

\* f"{'w' if piece.color == chess.WHITE else 'b'}{piece.symbol().lower()}"
PieceName(piece) == <<IF piece.color = WHITE THEN "w" ELSE "b", lower(symbol(piece))[2]>>

\* reset_game() followed by color_selection = True.
ResetGame ==
    \E eng \in BOOLEAN, load \in LoadTimes :
        /\ Started(engines_started, eng) <= MaxEngines
        /\ FreshSession(eng, load)
        /\ engines_started' = Started(engines_started, eng)
        /\ color_selection' = TRUE
        /\ UNCHANGED <<running, pc, engines_quit>>

\* MOUSEBUTTONDOWN outside colour selection.
MouseButtonDown(button, pos) ==
    /\ pc = "loop"
    /\ ~color_selection
    /\ IF ~game_over /\ ~ai_thinking /\ button = 1
       THEN IF checkmate_popup
            THEN IF button_rect(pos) THEN ResetGame ELSE UNCHANGED vars
            ELSE LET sq == pixel_to_square(player_color, pos)
                 IN IF Selectable(sq)
                    THEN /\ selected_square' = sq
                         /\ valid_moves' = {move \in legal_moves(board) :
                                                move.from_square = sq}
                         /\ selected_piece' = PieceName(piece_at(board, sq))
                         /\ selected_piece_pos' = pos
                         /\ UNCHANGED <<board, last_move, game_over, ai_thinking,
                                        move_history, captured_pieces, player_color,
                                        white_time, black_time, since_last_time,
                                        game_started, checkmate_popup, winner, engine,
                                        engines_started, engines_quit,
                                        running, color_selection, pc>>
                    ELSE UNCHANGED vars
       ELSE UNCHANGED vars

\* MOUSEBUTTONUP outside colour selection.
MouseButtonUp(button, pos) ==
    /\ pc = "loop"
    /\ ~color_selection
    /\ IF ~game_over /\ ~ai_thinking /\ button = 1 /\ selected_square # NoSquare
       THEN LET target_square == pixel_to_square(player_color, pos)
                move == Move(selected_square, target_square, None)
                applies == target_square # NoSquare /\ move \in valid_moves
                s == IF applies THEN ApplyMove(PlyState, move) ELSE PlyState
            IN /\ applies => Room(PlyState, move)
               /\ SetPlyState(s)
               /\ ai_thinking' = IF applies /\ ~is_game_over(s.board)
                                 THEN TRUE ELSE ai_thinking
               /\ selected_square' = NoSquare
               /\ valid_moves' = {}
               /\ selected_piece' = NoName
               /\ selected_piece_pos' = NoPos
               /\ UNCHANGED <<player_color, white_time, black_time, since_last_time,
                              game_started, engine,
                              engines_started, engines_quit, running, color_selection, pc>>
       ELSE UNCHANGED vars

\* MOUSEMOTION outside colour selection.
MouseMotion(pos) ==
    /\ pc = "loop"
    /\ ~color_selection
    /\ selected_piece # NoName
    /\ selected_piece_pos' = pos
    /\ UNCHANGED <<board, selected_square, valid_moves, last_move, game_over,
                   ai_thinking, move_history, captured_pieces, selected_piece,
                   player_color, white_time, black_time, since_last_time,
                   game_started, checkmate_popup, winner, engine,
                   engines_started, engines_quit, running,
                   color_selection, pc>>

\* KEYDOWN K_r outside colour selection.
KeyReset ==
    /\ pc = "loop"
    /\ ~color_selection
    /\ ResetGame

\* Undo that drops one history entry instead of two.
UndoHistoryOnce(h) == SubSeq(h, 1, Len(h) - 1)
\* Undo that pops the position once instead of twice.
UndoBoardOnce(b) == pop(b)

\* The two pops of the position and of the history.
UndoBoard(b) == pop(pop(b))
UndoHistory(h) == SubSeq(h, 1, Len(h) - 2)
UndoAllowed(h) == Len(h) >= 2

\* KEYDOWN K_u outside colour selection.  board.pop() on an empty move stack
\* raises IndexError, which nothing catches.
KeyUndo ==
    /\ pc = "loop"
    /\ ~color_selection
    /\ IF UndoAllowed(move_history)
       THEN IF Len(board.move_stack) < 2
            THEN /\ pc' = "crashed"
                 /\ UNCHANGED <<board, selected_square, valid_moves, last_move,
                                game_over, ai_thinking, move_history, captured_pieces,
                                selected_piece, selected_piece_pos, player_color,
                                white_time, black_time, since_last_time, game_started,
                                checkmate_popup, winner, engine,
                                engines_started, engines_quit, running,
                                color_selection>>
            ELSE /\ board' = UndoBoard(board)
                 /\ move_history' = UndoHistory(move_history)
                 /\ game_over' = FALSE
                 /\ checkmate_popup' = FALSE
                 /\ ai_thinking' = FALSE
                 /\ selected_square' = NoSquare
                 /\ valid_moves' = {}
                 /\ selected_piece' = NoName
                 /\ selected_piece_pos' = NoPos
                 /\ UNCHANGED <<last_move, captured_pieces, player_color, white_time,
                                black_time, since_last_time, game_started, winner,
                                engine,
                                engines_started, engines_quit, running, color_selection, pc>>
       ELSE UNCHANGED vars

\* The rest of a loop iteration after the events: the engine's reply, the
\* timer, the drawing (no state), clock.tick, and the loop's exit when the
\* batch of events held pygame.QUIT (quit).  The QUIT handler only clears
\* running and commutes with every other handler, so it is taken as the
\* last event of its batch.
EndOfIterationWith(quit, reply, d, ft) ==
         LET ai_runs == ~color_selection /\ ai_thinking /\ ~game_over
             ai_move == get_ai_move(engine, reply)
             applies == ai_runs /\ EngineApplies(board, ai_move)
             took == IF ai_runs /\ engine THEN d ELSE 0
             s == IF applies THEN ApplyMove(PlyState, ai_move) ELSE PlyState
             t0 == TimerState(s, since_last_time + took)
             t == IF color_selection THEN t0
                  ELSE update_timer(t0, game_started, s.board, t0.since)
         IN /\ ~(ai_runs /\ engine) => reply = NoMove
            /\ applies => Room(PlyState, ai_move)
            /\ t.white_time >= MinTime /\ t.black_time >= MinTime
            /\ board' = s.board
            /\ move_history' = s.move_history
            /\ captured_pieces' = s.captured_pieces
            /\ last_move' = s.last_move
            /\ ai_thinking' = IF ai_runs THEN FALSE ELSE ai_thinking
            /\ white_time' = t.white_time
            /\ black_time' = t.black_time
            /\ game_over' = t.game_over
            /\ winner' = t.winner
            /\ checkmate_popup' = t.checkmate_popup
            /\ running' = ~quit
            /\ IF running'
               THEN /\ t.since + ft <= MaxSince
                    /\ since_last_time' = t.since + ft
                    /\ pc' = pc
               ELSE /\ since_last_time' = t.since
                    /\ pc' = "done"
            /\ engines_quit' = IF ~running' /\ engine
                               THEN engines_quit + 1 ELSE engines_quit
            /\ UNCHANGED <<selected_square, valid_moves, selected_piece,
                           selected_piece_pos, player_color, game_started, engine,
                           engines_started, color_selection>>

\* The end of an iteration, with what the engine answers and the times the
\* engine call and the frame take as inputs.
EndOfIteration(quit) ==
    /\ pc = "loop"
    /\ \E reply \in EngineReplies(board), d \in EngineTimes, ft \in FrameTimes :
         EndOfIterationWith(quit, reply, d, ft)

\* A frame after which the loop goes on, and the last frame.
Frame == EndOfIteration(FALSE)
QuitFrame == EndOfIteration(TRUE)

Next ==
    \/ \E pos \in Positions : ColorClick(pos)
    \/ \E button \in Buttons, pos \in Positions : MouseButtonDown(button, pos)
    \/ \E button \in Buttons, pos \in Positions : MouseButtonUp(button, pos)
    \/ \E pos \in MotionPositions : MouseMotion(pos)
    \/ KeyReset
    \/ KeyUndo
    \/ Frame
    \/ QuitFrame

Spec == Init /\ [][Next]_vars

\* ---------------------------------------------------------- properties
\* The human's side and the engine's, once a colour is chosen.
HumanSide == IF Truthy(player_color) THEN WHITE ELSE BLACK
SideName(c) == IF c = WHITE THEN "White" ELSE "Black"

\* The position reached from chess.Board() by the moves ms.
RECURSIVE Replay(_)
Replay(ms) ==
    IF ms = <<>> THEN NewBoard
    ELSE push(Replay(SubSeq(ms, 1, Len(ms) - 1)), ms[Len(ms)])

\* C1: in every reachable state the move-history log is as long as the
\* move stack of the position.
C1_HistoryMatchesStack == Len(move_history) = Len(board.move_stack)

\* A game in which the engine moved first as White, plies were undone and
\* played again (a capture is in the tally but no longer in the log).
C1_Witness ==
    /\ player_color = "False"
    /\ Len(move_history) >= 2
    /\ captured_pieces.b # <<>>
    /\ \A i \in 1 .. Len(move_history) : ~move_history[i].capture

\* C2: an undo with n >= 2 recorded plies leaves position and log as after
\* the first n-2 plies and clears the selection; with n < 2 it changes
\* nothing.
C2_UndoStep ==
    KeyUndo =>
        IF Len(move_history) >= 2
        THEN /\ board' = Replay(SubSeq(board.move_stack, 1, Len(move_history) - 2))
             /\ move_history' = SubSeq(move_history, 1, Len(move_history) - 2)
             /\ selection' = NoSelection
        ELSE UNCHANGED vars
\* C2: every undo step leaves position and log as after the first n-2
\* plies and clears the selection, or changes nothing when n < 2.
C2_Undo == [][C2_UndoStep]_vars

\* An undo has acted on a finished game: the game runs again and the winner
\* of the undone ending is still recorded.
C2_Witness ==
    /\ ~color_selection
    /\ ~game_over
    /\ winner # None
    /\ Len(move_history) >= 1

\* C3: after an undo with at least two recorded plies the game is not over,
\* no engine request is pending and the human is to move (so the plies
\* removed were a human ply and the engine's reply).
C3_UndoStep ==
    (KeyUndo /\ Len(move_history) >= 2) =>
        /\ ~game_over'
        /\ ~ai_thinking'
        /\ board'.turn = HumanSide
\* C3: every undo step with at least two recorded plies ends with the game
\* running, no engine request pending and the human to move.
C3_UndoToHumanTurn == [][C3_UndoStep]_vars

\* The sequencer is in GameOver with the outcome announcement shown.
InGameOver == pc = "loop" /\ ~color_selection /\ game_over /\ checkmate_popup

\* C4: in GameOver a left press on the New Game control reinitializes the
\* session and returns to colour selection; no other press or release
\* changes position, history or tallies.
C4_DismissResets ==
    InGameOver =>
        /\ ENABLED (/\ MouseButtonDown(1, NewGamePos)
                    /\ color_selection'
                    /\ board' = NewBoard
                    /\ move_history' = <<>>
                    /\ ~game_over'
                    /\ ~checkmate_popup'
                    /\ winner' = None
                    /\ white_time' = INITIAL_TIME
                    /\ black_time' = INITIAL_TIME)
        /\ \A button \in Buttons, pos \in Positions :
              ~(button = 1 /\ button_rect(pos)) =>
                 ~ENABLED (/\ MouseButtonDown(button, pos) \/ MouseButtonUp(button, pos)
                           /\ <<board, move_history, captured_pieces>>'
                                 # <<board, move_history, captured_pieces>>)

\* C5: the selection state is non-empty only while the game is not over and
\* it is the human's turn.
C5_SelectionOnlyOnHumanTurn ==
    selection # NoSelection =>
        /\ ~game_over
        /\ ~ai_thinking
        /\ board.turn = HumanSide

\* C6: once the game is over, game-over and the winner keep their values
\* until a reset starts a new game.
C6_OutcomeStep ==
    (game_over /\ ~color_selection') => (game_over' /\ winner' = winner)
\* C6: in every step taken while the game is over and that does not start
\* a new game, game-over stays true and the winner keeps its value.
C6_OutcomeSetOnce == [][C6_OutcomeStep]_vars

\* A step that applies one ply to the position.
PlyApplied == Len(board'.move_stack) = Len(board.move_stack) + 1

\* C7: when an applied ply ends the game the winner is the side that made
\* the ply under checkmate, and there is no winner otherwise.
C7_PlyStep ==
    (PlyApplied /\ is_game_over(board')) =>
        winner' = IF is_checkmate(board') THEN SideName(board.turn) ELSE None
\* C7: every step whose ply ends the game records the mover as winner
\* under checkmate and no winner under any other termination.
C7_WinnerOfEndingPly == [][C7_PlyStep]_vars

\* What every step that ends a loop iteration does: it leaves the selection,
\* the colour and the history's earlier entries alone and moves the clock or
\* leaves the loop.  (Tested first: it is cheap to evaluate.)
FrameShape ==
    /\ pc = "loop"
    /\ UNCHANGED <<selected_square, valid_moves, selected_piece, selected_piece_pos,
                   player_color, color_selection>>
    /\ Len(move_history') >= Len(move_history)
    /\ \/ since_last_time' # since_last_time
       \/ white_time' # white_time
       \/ black_time' # black_time
       \/ pc' # pc

\* A step that ends a loop iteration.
FrameStep == FrameShape /\ (Frame \/ QuitFrame)

\* The timer step of a frame gets past its first test: the game is started
\* and is not over once the engine's reply of that frame is applied.
TimerRuns ==
    /\ ~color_selection
    /\ game_started
    /\ ~game_over
    /\ ~(PlyApplied /\ is_game_over(board'))

\* C8: in a frame whose timer step runs with the game started and not over,
\* the countdown of the side to move decreases and the other is unchanged;
\* in every other frame neither changes; within a game no countdown
\* increases.
C8_TimerStep ==
    /\ FrameStep =>
          IF TimerRuns
          THEN IF board'.turn = WHITE
               THEN white_time' < white_time /\ black_time' = black_time
               ELSE black_time' < black_time /\ white_time' = white_time
          ELSE white_time' = white_time /\ black_time' = black_time
    /\ ~color_selection' => (white_time' <= white_time /\ black_time' <= black_time)
\* C8: every frame charges exactly the countdown of the side to move when
\* the timer runs and none otherwise; no countdown increases within a game.
C8_OneCountdownDecreases == [][C8_TimerStep]_vars

\* Both countdowns have been charged in a game that still runs.
C8_Witness ==
    /\ ~color_selection
    /\ ~game_over
    /\ 0 < white_time /\ white_time < INITIAL_TIME
    /\ 0 < black_time /\ black_time < INITIAL_TIME

\* C9: the game becomes over in the first frame that leaves a countdown
\* <= 0 and not in an earlier frame of the timer, the winner of that expiry
\* is the side whose countdown did not expire, and the announcement flag is
\* set.
C9_ExpiryStep ==
    (FrameStep /\ ~color_selection) =>
        /\ (white_time' <= 0 \/ black_time' <= 0) => (game_over' /\ checkmate_popup')
        /\ TimerRuns => (game_over' <=> (white_time' <= 0 \/ black_time' <= 0))
        /\ (white_time > 0 /\ black_time > 0 /\ white_time' <= 0) =>
              (winner' = "Black" /\ black_time' > 0)
        /\ (white_time > 0 /\ black_time > 0 /\ black_time' <= 0) =>
              (winner' = "White" /\ white_time' > 0)
\* C9: every frame that leaves a countdown <= 0 ends the game with the
\* announcement shown, and the side whose countdown did not expire wins.
C9_ClockExpiry == [][C9_ExpiryStep]_vars

\* Black's countdown has expired in a position the rules have not ended:
\* the game is over, White is the winner and the announcement is shown.
C9_Witness ==
    /\ game_over
    /\ checkmate_popup
    /\ winner = "White"
    /\ black_time <= 0
    /\ white_time > 0
    /\ ~is_game_over(board)

\* The countdowns of the engine's side and of the human's.
EngineCountdown == IF HumanSide = WHITE THEN black_time ELSE white_time
HumanCountdown == IF HumanSide = WHITE THEN white_time ELSE black_time

\* C10: a human ply that does not end the game requests the engine, and in
\* the frame that applies the engine's reply the time of the engine call
\* comes off the engine's countdown: the human's countdown loses no more
\* than the time that passed before that frame.
C10_EngineStep ==
    /\ (PlyApplied /\ ~game_over' /\ \E pos \in Positions : MouseButtonUp(1, pos))
          => ai_thinking'
    /\ (FrameStep /\ PlyApplied /\ TimerRuns) =>
          /\ EngineCountdown' < EngineCountdown
          /\ HumanCountdown' >= HumanCountdown - since_last_time
\* C10: every human ply that leaves the game running requests the engine,
\* and the engine call's time is charged to the engine's countdown.
C10_EngineTimeCharged == [][C10_EngineStep]_vars

\* A pointer press outside colour selection, whatever its button and place.
PressStep == \E button \in Buttons, pos \in Positions : MouseButtonDown(button, pos)

\* The pressed place holds a piece of the side to move that is the human's.
OwnPieceToMove(pos) ==
    LET sq == pixel_to_square(player_color, pos)
        piece == piece_at(board, sq)
    IN /\ sq # NoSquare
       /\ piece # NoPiece
       /\ piece.color = board.turn
       /\ piece.color = HumanSide

\* C11: a press changes the selection only if the game is not over, no
\* engine request is pending and the pressed square holds a piece of the
\* side to move that is the human's colour, and then the selected square is
\* the pressed one and the destination set the legal moves from it; every
\* other press leaves the selection unchanged.
C11_PressStep ==
    (selection' # selection /\ ~color_selection' /\ PressStep) =>
        /\ ~game_over
        /\ ~ai_thinking
        /\ OwnPieceToMove(selected_piece_pos')
        /\ selected_square' = pixel_to_square(player_color, selected_piece_pos')
        /\ valid_moves' = {m \in legal_moves(board) : m.from_square = selected_square'}
\* C11: every press step selects only an own piece of the side to move.
C11_PressSelectsOwnPiece == [][C11_PressStep]_vars

\* The human, playing Black, has picked up a piece that has a legal move.
C11_Witness ==
    /\ player_color = "False"
    /\ selected_square # NoSquare
    /\ valid_moves # {}
    /\ ~game_over

\* The answers of an engine request that are not applied: no move, and a
\* move that is not legal in the position.
SkippedReplies == {NoMove, IllegalReply}

\* A frame that serves a pending engine request whose answer is skipped.
SkippedReplyStep ==
    /\ FrameShape
    /\ ~color_selection /\ ai_thinking /\ ~game_over
    /\ \E quit \in BOOLEAN, reply \in SkippedReplies,
          d \in EngineTimes, ft \in FrameTimes :
            EndOfIterationWith(quit, reply, d, ft)

\* C12: when the engine request answers no move or a move that is not
\* legal, no ply is applied: position, history, tallies and last-move marker
\* are unchanged, the pending flag is cleared, the loop does not fail, and
\* game-over and winner change only if a countdown expires in that frame.
C12_SkipStep ==
    SkippedReplyStep =>
        /\ UNCHANGED <<board, move_history, captured_pieces, last_move>>
        /\ ~ai_thinking'
        /\ pc' # "crashed"
        /\ (game_over' # game_over \/ winner' # winner) =>
              (white_time' <= 0 \/ black_time' <= 0)
\* C12: every frame whose engine request is skipped applies no ply.
C12_SkippedReply == [][C12_SkipStep]_vars

\* Without an engine the human's first ply as White got no reply: the
\* request is cleared and Black is still to move.
C12_Witness ==
    /\ ~engine
    /\ player_color = "True"
    /\ Len(move_history) = 1
    /\ board.turn = BLACK
    /\ ~ai_thinking
    /\ ~game_over

\* C13: over any run, resets included, at most one engine process is
\* started, and once the application has shut down every engine process
\* that was started has been terminated once.
C13_EngineOnce ==
    /\ engines_started <= 1
    /\ pc = "done" => engines_quit = engines_started

\* The session as the application starts it: initial position, nothing
\* recorded or selected, both countdowns full, no colour chosen, the colour
\* choice shown.
StartOfSession ==
    /\ board = NewBoard
    /\ move_history = <<>>
    /\ captured_pieces = [w |-> <<>>, b |-> <<>>]
    /\ selection = NoSelection
    /\ last_move = NoMove
    /\ white_time = INITIAL_TIME
    /\ black_time = INITIAL_TIME
    /\ ~game_started
    /\ ~game_over
    /\ winner = None
    /\ ~checkmate_popup
    /\ ~ai_thinking
    /\ player_color = None
    /\ color_selection

\* C14: a reset (the reset key outside colour selection) leaves every
\* session field at its start-of-application value and the sequencer in
\* colour selection.
C14_ResetStep == KeyReset => StartOfSession'
\* C14: the application starts in that session and every reset step
\* returns to it.
C14_ResetIsWhole == (StartOfSession = TRUE) /\ [][C14_ResetStep]_vars

\* A reset has acted (it launched the second engine process) and the
\* colour choice is shown.
C14_Witness ==
    /\ color_selection
    /\ engines_started = 2
    /\ pc = "loop"

\* ------------------------------------------------- coordinate mapping
\* The two mapping functions on their own: the orientation and a pixel are
\* the inputs, pixel_to_square locates the pixel's square and
\* square_to_pixel places that square's corner.
Orientations == {"True", "False"}
\* Pixel coordinates tried on each axis: the window's edges, the pixels just
\* outside the board, and the first, middle and last pixel of every column
\* or row of squares.
Offsets == {0, SQUARE_SIZE \div 2, SQUARE_SIZE - 1}
Coordinates ==
    {0, MARGIN - 1, MARGIN + BOARD_SIZE, WINDOW_SIZE - 1}
        \cup {MARGIN + k * SQUARE_SIZE + o : k \in 0 .. 7, o \in Offsets}
Pixels == Coordinates \X Coordinates

CoordInit ==
    /\ player_color \in Orientations
    /\ selected_piece_pos \in Pixels
    /\ selected_square = NoSquare
    /\ pc = "pixel"
    /\ board = NewBoard
    /\ valid_moves = {}
    /\ last_move = NoMove
    /\ game_over = FALSE
    /\ ai_thinking = FALSE
    /\ move_history = <<>>
    /\ captured_pieces = [w |-> <<>>, b |-> <<>>]
    /\ selected_piece = NoName
    /\ white_time = INITIAL_TIME
    /\ black_time = INITIAL_TIME
    /\ since_last_time = 0
    /\ game_started = TRUE
    /\ checkmate_popup = FALSE
    /\ winner = None
    /\ engine = FALSE
    /\ running = TRUE
    /\ color_selection = FALSE
    /\ engines_started = 0
    /\ engines_quit = 0

CoordRest ==
    <<board, valid_moves, last_move, game_over, ai_thinking, move_history,
      captured_pieces, selected_piece, player_color, white_time, black_time,
      since_last_time, game_started, checkmate_popup, winner, engine, running,
      color_selection, engines_started, engines_quit>>

\* square = self.pixel_to_square(pos)
Locate ==
    /\ pc = "pixel"
    /\ selected_square' = pixel_to_square(player_color, selected_piece_pos)
    /\ pc' = "located"
    /\ UNCHANGED <<selected_piece_pos, CoordRest>>

\* x, y = self.square_to_pixel(square)
Place ==
    /\ pc = "located"
    /\ selected_square # NoSquare
    /\ selected_piece_pos' = square_to_pixel(player_color, selected_square)
    /\ pc' = "placed"
    /\ UNCHANGED <<selected_square, CoordRest>>

CoordNext == Locate \/ Place
CoordSpec == CoordInit /\ [][CoordNext]_vars

\* The board area of the window, and the rectangle of square s.
OnBoard(pos) ==
    /\ MARGIN <= pos[1] /\ pos[1] < MARGIN + BOARD_SIZE
    /\ MARGIN <= pos[2] /\ pos[2] < MARGIN + BOARD_SIZE
InSquareRect(color, s, pos) ==
    LET corner == square_to_pixel(color, s)
    IN collidepoint(corner[1], corner[2], SQUARE_SIZE, SQUARE_SIZE, pos)

\* C15: in both orientations a pixel lies in the rectangle of exactly one
\* square, the one pixel_to_square gives for it, when it is in the board
\* area, and maps to no square when it is outside; the corner
\* square_to_pixel gives for a square maps back to that square.
C15_CoordinateBijection ==
    /\ pc = "located" =>
          IF OnBoard(selected_piece_pos)
          THEN /\ selected_square \in SQUARES
               /\ \A s \in SQUARES :
                     InSquareRect(player_color, s, selected_piece_pos)
                        <=> s = selected_square
          ELSE selected_square = NoSquare
    /\ pc = "placed" =>
          /\ OnBoard(selected_piece_pos)
          /\ pixel_to_square(player_color, selected_piece_pos) = selected_square

\* With the human as Black the last pixel of the board area is located on
\* h8.
C15_Witness ==
    /\ pc = "located"
    /\ player_color = "False"
    /\ selected_piece_pos = <<MARGIN + BOARD_SIZE - 1, MARGIN + BOARD_SIZE - 1>>
    /\ selected_square = square(7, 7)

\* The column and the row of the board in which square s is drawn.
Column(color, s) == (square_to_pixel(color, s)[1] - MARGIN) \div SQUARE_SIZE
Row(color, s) == (square_to_pixel(color, s)[2] - MARGIN) \div SQUARE_SIZE
HomeRank(color) == IF Truthy(color) THEN 0 ELSE 7

\* C16: a square drawn at column c, row r for White is drawn at column
\* 7-c, row 7-r for Black, and the human's home rank is drawn in the bottom
\* row in both orientations.
C16_MirroredForBlack ==
    pc = "placed" =>
        /\ Column("False", selected_square) = 7 - Column("True", selected_square)
        /\ Row("False", selected_square) = 7 - Row("True", selected_square)
        /\ square_rank(selected_square) = HomeRank(player_color) =>
              Row(player_color, selected_square) = 7

\* The piece on the destination square of the ply a step applies, in the
\* position before the ply.
TakenByPly == piece_at(board, board'.move_stack[Len(board'.move_stack)].to_square)

\* Tally tl grows by one entry, of the kind of piece p.
GrowsBy(old, new, p) ==
    /\ Len(new) = Len(old) + 1
    /\ SubSeq(new, 1, Len(old)) = old
    /\ new[Len(new)][2] = p.type

\* C17: within a game the capture tallies change only in a step that
\* applies a ply onto an occupied square, which appends exactly one entry,
\* the kind of the piece that stood there, to one tally; every other step
\* (undo, skipped engine ply, rejected release, press, timer) leaves them
\* as they are.
C17_TallyStep ==
    ~color_selection' =>
        IF PlyApplied /\ TakenByPly # NoPiece
        THEN \/ /\ GrowsBy(captured_pieces.w, captured_pieces'.w, TakenByPly)
                /\ captured_pieces'.b = captured_pieces.b
             \/ /\ GrowsBy(captured_pieces.b, captured_pieces'.b, TakenByPly)
                /\ captured_pieces'.w = captured_pieces.w
        ELSE captured_pieces' = captured_pieces
C18_ReleaseStep ==
    (selected_square # NoSquare /\ selected_square' = NoSquare
        /\ ~game_over /\ ~ai_thinking) =>
        \A pos \in Positions :
            MouseButtonUp(1, pos) =>
                LET target_square == pixel_to_square(player_color, pos)
                IN IF \E m \in valid_moves : m.to_square = target_square
                   THEN /\ PlyApplied
                        /\ last_move'.from_square = selected_square
                        /\ last_move'.to_square = target_square
                        /\ Len(move_history') = Len(move_history) + 1
                   ELSE /\ UNCHANGED <<board, move_history, captured_pieces>>
                        /\ selection' = NoSelection
\* C18: every release with a piece selected applies the move to a legal
\* destination and discards the selection otherwise.
C18_ReleaseApplies == [][C18_ReleaseStep]_vars

\* The sequencer is in HumanTurn: a game is started and not over and no
\* engine request is pending.
InHumanTurn == ~color_selection /\ game_started /\ ~game_over /\ ~ai_thinking

\* C19: at the end of every frame that leaves the sequencer in HumanTurn
\* the side to move is the human's colour.
C19_FrameStep == (FrameStep /\ InHumanTurn') => board'.turn = HumanSide'
\* C19: every frame that ends in HumanTurn ends with the human to move.
C19_HumanToMove == [][C19_FrameStep]_vars

\* A ply applied from pointer input (a release), and one applied from an
\* engine request (in a frame, or at the choice of Black).
PointerPly ==
    /\ PlyApplied
    /\ selected_square # NoSquare /\ selected_square' = NoSquare
    /\ \E pos \in Positions : MouseButtonUp(1, pos)
EnginePly == PlyApplied /\ (color_selection \/ FrameStep)

\* The colour of the piece the applied ply moves.
MoverColor == piece_at(board, last_move'.from_square).color

\* C20: a ply applied from pointer input is a move of the human's colour
\* made when that colour is to move, and a ply applied from an engine
\* request is a move of the other colour made when that colour is to move.
C20_OwnerStep ==
    /\ PointerPly => (board.turn = HumanSide /\ MoverColor = HumanSide)
    /\ EnginePly => (board.turn # HumanSide' /\ MoverColor # HumanSide')
\* C20: every applied ply is made by the controller that owns the side to
\* move.
C20_PlyByOwner == [][C20_OwnerStep]_vars

\* With the human as Black the engine, the human and the engine again have
\* each applied a ply.
C20_Witness ==
    /\ player_color = "False"
    /\ Len(move_history) = 3
    /\ board.turn = BLACK
    /\ ~ai_thinking
    /\ ~game_over

\* ------------------------------------------------------------ liveness
\* The loop renders a frame in every iteration for as long as it runs
\* (while running: ... clock.tick(60)), so a frame that can be rendered is
\* rendered eventually.
\* The events and frames of a run in which no reset occurs.
LiveNext ==
    \/ \E pos \in Positions : ColorClick(pos)
    \/ \E button \in Buttons, pos \in Positions : MouseButtonDown(button, pos)
    \/ \E button \in Buttons, pos \in Positions : MouseButtonUp(button, pos)
    \/ \E pos \in MotionPositions : MouseMotion(pos)
    \/ KeyUndo
    \/ Frame
    \/ QuitFrame
LiveSpec == Init /\ [][LiveNext]_vars /\ WF_vars(Frame)

\* A game is running: a colour is chosen, the loop runs, the game is not
\* over.
GameRuns == ~color_selection /\ pc = "loop" /\ ~game_over
\* A countdown is so far below zero (after undos of games lost on time)
\* that the next frame may take it under MinTime, where the model stops
\* following the frames.
NearFloor == white_time - MaxSince < MinTime \/ black_time - MaxSince < MinTime
\* What ends the run of frames the claim supposes: a reset, the loop's
\* exit, or the floor under the countdowns.
FramesEnd == color_selection \/ pc # "loop" \/ NearFloor
\* Above the floor a running game always has a next frame.
FrameAlwaysPossible == (GameRuns /\ ~NearFloor) => ENABLED Frame

\* A frame of a game in which a countdown has expired ends with the game
\* over.
C21_ExpiredStep ==
    (FrameStep /\ ~color_selection /\ (white_time <= 0 \/ black_time <= 0))
        => game_over'

\* C21: once a colour is chosen, as long as frames are rendered and no
\* reset occurs the game eventually becomes over, whatever the human and
\* the engine do; and after a clock expiry the game is over at the end of
\* every later frame.
C21_EventuallyOver ==
    /\ GameRuns ~> (game_over \/ FramesEnd)
    /\ [][C21_ExpiredStep]_vars

\* Without an engine and with the human as Black nobody has moved, and
\* White's countdown has expired: the game is over.
C21_Witness ==
    /\ ~engine
    /\ player_color = "False"
    /\ move_history = <<>>
    /\ white_time <= 0
    /\ game_over

\* The step that chooses the colour and starts the game, and the time that
\* passes within it (the delay and the engine's first move, both after the
\* choice is made).
ChoiceStep == color_selection /\ ~color_selection' /\ game_started'
TimeSinceChoice == since_last_time' - since_last_time

\* C22: when the game starts both countdowns are 600 and the time the
\* first timer step will subtract (now minus last_time) is only the time
\* that has passed since the colour was chosen, none of the time spent in
\* colour selection.
C22_ChoiceStep ==
    ChoiceStep =>
        /\ white_time' = INITIAL_TIME
        /\ black_time' = INITIAL_TIME
        /\ since_last_time' = TimeSinceChoice
\* C22: every step that starts a game leaves no time from before the
\* choice to be charged.
C22_SelectionTimeNotCharged == [][C22_ChoiceStep]_vars

\* C23: once a countdown has reached a value <= 0, no ply, the human's or
\* the engine's, is applied to the position until a reset starts a new
\* game, whatever the order of the events of a frame.
C23_ExpiredStep ==
    ((white_time <= 0 \/ black_time <= 0) /\ ~color_selection') => ~PlyApplied
====
